---- MODULE Spec2Model ----
(***************************************************************************)
(* Model of the video composition engine of hoti-rs:                       *)
(*   - SubtitleManager::new / update      (src/src/video_gen/subtitle.rs)  *)
(*   - ImageManager's schedule / update   (src/src/video_gen/image_manager.rs) *)
(*   - VideoFrameIter (Iterator::next)    (src/src/video_gen/mod.rs)       *)
(*   - VideoFrameIter::encode_h264: the need_data callback, the two        *)
(*     branches of the GStreamer graph and the bus wait loop.              *)
(*                                                                         *)
(* A text is a sequence of one-character strings.  The redaction glyph     *)
(* U+2588 of the source is written "#".                                    *)
(***************************************************************************)
EXTENDS Integers, Sequences, FiniteSets, TLC

\* ------------------------------------------------------------------ bounds
MaxFrames == 3        \* largest total_frames of a Frame Source in Spec
MaxAudio == 1         \* largest number of audio blocks left in the file
MaxOther == 1         \* bus messages that are neither Eos/AsyncDone/Error
MaxExtraCalls == 2    \* demand callbacks explored after exhaustion
MaxWords == 3         \* largest number of words of a text in SubSpec
MaxStores == 2        \* Image Stores, one thread each, in StoreSpec
MaxHandles == 2       \* handles issued in StoreSpec
MaxCalls == 2         \* get_resized calls in StoreSpec
MaxNodes == 3         \* nodes below the root of a tree in RenderSpec

\* --------------------------------------------------------- program constants
Threshold == 100      \* subtitle.rs:37
EofNeeded == 2        \* mod.rs:187
FrameRate == 60       \* main.rs:62
NanosPerSecond == 1000000000
U32Max == 2147483647   \* stands for u32::MAX, which exceeds TLC's integers
U8Max == 255          \* image_manager.rs:23  `as u8`
SwapSeconds == 5      \* image_manager.rs:23  `/ 5.0`
LeadSeconds == 5      \* image_manager.rs:23  Duration::from_secs(5)
BatchMax == 10        \* image_manager.rs:36  n.min(10)

REDACT == "#"

\* ------------------------------------------------------------------ helpers
Rep(ch, k) == [i \in 1..k |-> ch]

RECURSIVE JoinWords(_)
JoinWords(ws) ==
    IF Len(ws) = 0 THEN <<>>
    ELSE IF Len(ws) = 1 THEN ws[1]
    ELSE ws[1] \o <<" ">> \o JoinWords(Tail(ws))

\* Option<T>: None is the empty sequence, Some(x) a sequence of one element.
None == <<>>
Some(x) == <<x>>

\* ------------------------------------------------- subtitle.rs: the schedule
\* match ch { REDACT => continue, '.' | ',' | '?' => += 2, _ => += 1 }
CharUtterances(ch) ==
    IF ch = REDACT THEN 0
    ELSE IF ch \in {".", ",", "?"} THEN 2
    ELSE 1

\* for ch in text.chars() { ... }: the sum of the characters' weights, taken
\* weight by weight.
Utterances(s) ==
    2 * Cardinality({i \in DOMAIN s : CharUtterances(s[i]) = 2})
      + Cardinality({i \in DOMAIN s : CharUtterances(s[i]) = 1})

\* str::split(' '): every single space separates; the empty text gives one
\* empty word, adjacent spaces give empty words.
RECURSIVE Split(_)
Split(s) ==
    LET spaces == {i \in DOMAIN s : s[i] = " "}
    IN  IF spaces = {} THEN <<s>>
        ELSE LET first == CHOOSE i \in spaces : \A j \in spaces : i <= j
             IN  <<SubSeq(s, 1, first - 1)>> \o Split(SubSeq(s, first + 1, Len(s)))

\* f64::round (half away from zero) of num/den, for num >= 0 and den > 0.
FloorDiv(num, den) == num \div den

RoundDiv(num, den) == (2 * num + den) \div (2 * den)

SaturateU32(x) == IF x > U32Max THEN U32Max ELSE x

\* ((current + prev) as f64 * frames_per_ch).round() as u32 with
\* frames_per_ch = total_frames as f64 / utterances as f64.  The quotient is
\* taken exactly; utterances = 0 gives inf or NaN, which the cast saturates
\* (NaN to 0, inf to u32::MAX).
StartFrame(acc, total, utterances) ==
    IF utterances = 0
    THEN IF total = 0 \/ acc = 0 THEN 0 ELSE U32Max
    ELSE SaturateU32(RoundDiv(acc * total, utterances))

\* if (current_utterances + this_utterances) < 100
FitsChunkInverted(current, this) == current + this >= Threshold

FitsChunkAtThreshold(current, this) == current + this <= Threshold

FitsChunk(current, this) == current + this < Threshold

\* a word joins the last chunk without its separating space
AddWordNoSpace(st, part, total, utterances) ==
    LET this == Utterances(part) + 1
        n == Len(st.parts)
    IN  IF FitsChunk(st.current, this)
        THEN [parts |-> [st.parts EXCEPT ![n] =
                            <<st.parts[n][1], st.parts[n][2] \o part>>],
              prev |-> st.prev,
              current |-> st.current + this]
        ELSE [parts |-> Append(st.parts,
                            <<StartFrame(st.current + st.prev, total, utterances), part>>),
              prev |-> st.prev + st.current,
              current |-> this]

\* One iteration of `for part in text.split(' ')`.
\* st = [parts, prev, current]; parts is a sequence of <<frame, chunk>>.
AddWord(st, part, total, utterances) ==
    LET this == Utterances(part) + 1
        n == Len(st.parts)
    IN  IF FitsChunk(st.current, this)
        THEN [parts |-> [st.parts EXCEPT ![n] =
                            <<st.parts[n][1], st.parts[n][2] \o <<" ">> \o part>>],
              prev |-> st.prev,
              current |-> st.current + this]
        ELSE [parts |-> Append(st.parts,
                            <<StartFrame(st.current + st.prev, total, utterances), part>>),
              prev |-> st.prev + st.current,
              current |-> this]

RECURSIVE AddWords(_, _, _, _)
AddWords(st, ws, total, utterances) ==
    IF ws = <<>> THEN st
    ELSE AddWords(AddWord(st, Head(ws), total, utterances), Tail(ws), total, utterances)

\* SubtitleManager::new(text, total_frames).parts
SubtitleManagerNew(t, total) ==
    AddWords([parts |-> << <<0, <<>> >> >>, prev |-> 0, current |-> 0],
             Split(t), total, Utterances(t)).parts


\* ---------------------------------------------------------------- the state
VARIABLES
    text,               \* the dialogue handed to SubtitleManager::new
    total_frames,       \* VideoFrameIter.total_frames
    current_frame_idx,  \* VideoFrameIter.current_frame_idx
    updaters,           \* VideoFrameIter.updaters, in registration order
    parts,              \* SubtitleManager.parts: <<frame, chunk>> entries
    images,             \* ImageManager.images: <<frame, handle>> entries
    ui,                 \* the two nodes of VideoUI.children the updaters write
    main_pc,            \* position of the main thread
    pipeline_state,     \* GStreamer state of the pipeline: "Null" or "Playing"
    eof_count,          \* encode_h264: eof_count
    bus,                \* messages posted on the pipeline bus, not yet read
    pushed,             \* buffers handed to appsrc.push_buffer, in order
    eos_calls,          \* number of appsrc.end_of_stream() calls
    audio_left,         \* blocks of the audio file not yet decoded
    audio_eos,          \* the audio branch has reached end-of-stream
    async_posted,       \* the pipeline has posted AsyncDone
    eos_posted,         \* the pipeline has posted Eos
    error_posted,       \* an element has posted Error
    others_posted,      \* number of other messages posted
    results,            \* history: what each call of next() returned
    trace,              \* history: updater invocations and renders
    counted,            \* history: the messages the wait loop counted
    error_seen,         \* history: the wait loop has read an Error message
    sub_pc,             \* SubSpec: "input" before SubtitleManager::new, then "built"
    duration_ms,        \* TimingSpec: the Duration of the audio, in milliseconds
    rate,               \* TimingSpec: VideoFrameIter.frame_rate
    debug_build,        \* TimingSpec: the build checks integer overflow
    timing_pc,          \* TimingSpec: "input", "source" or "images"
    img_out,            \* TimingSpec: what ImageManager::new did
    handle_idx,         \* ui.rs: the static IMAGE_HANDLE_IDX
    store_images,       \* ImageStore.images of every store
    resize_cache,       \* ImageStore.resize_cache of every store
    held,               \* per store: the add() in progress, or None
    issued,             \* history: the handles in the order fetch_add gave them
    resample_calls,     \* history: the <<store, handle, size>> resampled, in order
    returned,           \* history: the pixels get_resized returned per pair
    tree,               \* RenderSpec: VideoUI.children with taffy's layout
    applied,            \* RenderSpec: the draw commands applied, in order
    render_pc,          \* RenderSpec: "building", "rendered" or "panic"
    box,                \* TextSpec: the text node's font, line height and resolved box
    measured,           \* TextSpec: the Size the measure function returned
    text_lines,         \* TextSpec: the lines of the Text draw command
    text_pc,            \* TextSpec: "input", "measured" or "drawn"
    attempt,            \* RetrySpec: main's attempt counter
    retry_pc            \* RetrySpec: where main's retry loop stands

vars == <<text, total_frames, current_frame_idx, updaters, parts, images, ui,
          main_pc, pipeline_state, eof_count, bus, pushed, eos_calls,
          audio_left, audio_eos, async_posted, eos_posted, error_posted,
          others_posted, results, trace, counted, error_seen, sub_pc,
          duration_ms, rate, debug_build, timing_pc, img_out,
          handle_idx, store_images, resize_cache, held, issued,
          resample_calls, returned, tree, applied, render_pc,
          box, measured, text_lines, text_pc, attempt, retry_pc>>

timingVars == <<duration_ms, rate, debug_build, timing_pc, img_out>>
storeVars == <<handle_idx, store_images, resize_cache, held, issued,
               resample_calls, returned>>
renderVars == <<tree, applied, render_pc>>
textVars == <<box, measured, text_lines, text_pc>>
retryVars == <<attempt, retry_pc>>
auxVars == <<timingVars, storeVars, renderVars, textVars, retryVars>>

iterVars == <<current_frame_idx, ui, results, trace, pushed, eos_calls>>
busVars == <<bus, async_posted, eos_posted, error_posted, others_posted>>
inputVars == <<text, total_frames, parts, images, sub_pc>>

\* ------------------------------------------------------- UiUpdater::update
\* self.parts.iter().find(|(frame, _)| *frame == frame_idx): the index of the
\* first entry scheduled at frame_idx, 0 when there is none.
FindFirstAtOrBefore(sched, frame_idx) ==
    LET hits == {i \in 1..Len(sched) : sched[i][1] <= frame_idx}
    IN  IF hits = {} THEN 0 ELSE CHOOSE i \in hits : \A j \in hits : i <= j

FindFirst(sched, frame_idx) ==
    LET hits == {i \in 1..Len(sched) : sched[i][1] = frame_idx}
    IN  IF hits = {} THEN 0 ELSE CHOOSE i \in hits : \A j \in hits : i <= j

\* ui.rs:58-69  enum Node
TextNode(t) == [kind |-> "text", text |-> t]
ImageNode(h) == [kind |-> "image", handle |-> h]
ContainerNode(items) == [kind |-> "container", items |-> items]

\* main.rs:74-164  ui.children as main builds it: the title container, the
\* image leaf, the classification container, the subtitle text node.
MainChildren(uiv) ==
    << ContainerNode(<<TextNode(<<"t">>), TextNode(<<"n">>)>>),
       ImageNode(uiv.image),
       ContainerNode(<<ContainerNode(<<ImageNode(0), TextNode(<<"c">>)>>)>>),
       TextNode(uiv.subtitle) >>

\* impl UiUpdater for SubtitleManager on the children of a tree:
\* ui.children[3] (the fourth child) is indexed only when an entry matches,
\* and written only when it is a TextCentered node.
SubtitleManagerUpdate(sched, frame_idx, children) ==
    LET i == FindFirst(sched, frame_idx)
    IN  IF i = 0 THEN [ok |-> TRUE, children |-> children]
        ELSE IF Len(children) < 4 THEN [ok |-> FALSE, children |-> children]
        ELSE IF children[4].kind # "text" THEN [ok |-> TRUE, children |-> children]
        ELSE [ok |-> TRUE,
              children |-> [children EXCEPT ![4].text = sched[i][2]]]

\* impl UiUpdater for ImageManager: ui.children[1] (the second child).
ImageManagerUpdate(sched, frame_idx, children) ==
    LET i == FindFirst(sched, frame_idx)
    IN  IF i = 0 THEN [ok |-> TRUE, children |-> children]
        ELSE IF Len(children) < 2 THEN [ok |-> FALSE, children |-> children]
        ELSE IF children[2].kind # "image" THEN [ok |-> TRUE, children |-> children]
        ELSE [ok |-> TRUE,
              children |-> [children EXCEPT ![2].handle = sched[i][2]]]

\* The same on the tree of main, of which uiv keeps the two nodes that the
\* updaters write: the tree has four children, the fourth a TextCentered
\* node and the second an Image node, so a matching entry is always written.
SubtitleUpdate(frame_idx, uiv) ==
    LET i == FindFirst(parts, frame_idx)
    IN  IF i = 0 THEN uiv ELSE [uiv EXCEPT !.subtitle = parts[i][2]]

ImageUpdate(frame_idx, uiv) ==
    LET i == FindFirst(images, frame_idx)
    IN  IF i = 0 THEN uiv ELSE [uiv EXCEPT !.image = images[i][2]]

\* updater.update(self.current_frame_idx, &mut self.ui); st = [ui, log]
Invoke(u, frame_idx, st) ==
    [ui |-> IF u = "subtitle" THEN SubtitleUpdate(frame_idx, st.ui)
            ELSE ImageUpdate(frame_idx, st.ui),
     log |-> Append(st.log, [kind |-> "update", who |-> u, frame |-> frame_idx])]

RECURSIVE ApplyUpdatersReversed(_, _, _)
ApplyUpdatersReversed(us, frame_idx, st) ==
    IF us = <<>> THEN st
    ELSE ApplyUpdatersReversed(SubSeq(us, 1, Len(us) - 1), frame_idx,
                               Invoke(us[Len(us)], frame_idx, st))

\* for updater in &mut self.updaters { updater.update(...) }
RECURSIVE ApplyUpdaters(_, _, _)
ApplyUpdaters(us, frame_idx, st) ==
    IF us = <<>> THEN st
    ELSE ApplyUpdaters(Tail(us), frame_idx, Invoke(Head(us), frame_idx, st))

\* self.ui.render(&mut frame): the frame is a function of the tree alone.
\* (A layout error would panic at mod.rs:221-226; the tree main builds lays
\* out, so the render returns.)
Render(uiv, frame_idx, st) ==
    [frame |-> uiv,
     log |-> Append(st.log, [kind |-> "render", who |-> "ui", frame |-> frame_idx])]

ExhaustedOffByOne(idx, total) == idx > total

\* if self.current_frame_idx >= self.total_frames { None }
Exhausted(idx, total) == idx >= total

ReturnedIndexAfterIncrement(idx) == idx + 1

\* Some((self.current_frame_idx - 1, frame)) after the increment
ReturnedIndex(idx) == idx

\* Iterator::next for VideoFrameIter: the value returned, the new index, the
\* new tree and the invocations made, in order.
IteratorNext(idx, total, us, uiv) ==
    IF Exhausted(idx, total)
    THEN [ret |-> None, idx |-> idx, ui |-> uiv, log |-> <<>>]
    ELSE LET upd == ApplyUpdaters(us, idx, [ui |-> uiv, log |-> <<>>])
             drawn == Render(upd.ui, idx, upd)
         IN  [ret |-> Some([idx |-> ReturnedIndex(idx), frame |-> drawn.frame]),
              idx |-> idx + 1, ui |-> upd.ui, log |-> drawn.log]

\* ClockTime::from_seconds(1) / self.frame_rate as u64, then duration * idx
BufferDuration == NanosPerSecond \div FrameRate
BufferPts(idx) == BufferDuration * idx

\* ------------------------------------------------------------ main thread
\* main.rs:197  video.updaters.push(Box::new(sub_mgr))
RegisterSubtitle ==
    /\ main_pc = "register_sub"
    /\ updaters' = Append(updaters, "subtitle")
    /\ main_pc' = "register_img"
    /\ UNCHANGED <<auxVars, iterVars, busVars, inputVars, pipeline_state, eof_count,
                   audio_left, audio_eos, counted, error_seen>>

\* main.rs:198  video.updaters.push(Box::new(img_mgr))
RegisterImage ==
    /\ main_pc = "register_img"
    /\ updaters' = Append(updaters, "image")
    /\ main_pc' = "set_playing"
    /\ UNCHANGED <<auxVars, iterVars, busVars, inputVars, pipeline_state, eof_count,
                   audio_left, audio_eos, counted, error_seen>>

\* mod.rs:176-180  pipeline.set_state(Playing); let mut eof_count = 0
SetStatePlaying ==
    /\ main_pc = "set_playing"
    /\ pipeline_state' = "Playing"
    /\ eof_count' = 0
    /\ main_pc' = "wait"
    /\ UNCHANGED <<auxVars, iterVars, busVars, inputVars, updaters, audio_left,
                   audio_eos, counted, error_seen>>

BreakAtFirstSignal(count) == count >= 1

BreakNever(count) == count >= EofNeeded + 1

\* if eof_count >= 2 { break; }
EnoughSignals(count) == count >= EofNeeded

IsCompletionSignal(msg) == msg \in {"Eos", "AsyncDone"}

WaitLoopIgnoresError ==
    /\ main_pc = "wait"
    /\ bus # <<>>
    /\ bus' = Tail(bus)
    /\ LET msg == Head(bus)
       IN  IF IsCompletionSignal(msg)
           THEN /\ eof_count' = eof_count + 1
                /\ counted' = Append(counted, msg)
                /\ IF EnoughSignals(eof_count + 1)
                   THEN main_pc' = "done" /\ pipeline_state' = "Null"
                   ELSE UNCHANGED <<main_pc, pipeline_state>>
           ELSE UNCHANGED <<eof_count, counted, main_pc, pipeline_state>>
    /\ UNCHANGED <<auxVars, iterVars, inputVars, updaters, audio_left, audio_eos,
                   async_posted, eos_posted, error_posted, others_posted,
                   error_seen>>

\* mod.rs:181-204  one iteration of `for msg in bus.iter_timed(NONE)`; a
\* break falls through to pipeline.set_state(Null).
WaitLoop ==
    /\ main_pc = "wait"
    /\ bus # <<>>
    /\ bus' = Tail(bus)
    /\ LET msg == Head(bus)
       IN  IF IsCompletionSignal(msg)
           THEN /\ eof_count' = eof_count + 1
                /\ counted' = Append(counted, msg)
                /\ IF EnoughSignals(eof_count + 1)
                   THEN main_pc' = "done" /\ pipeline_state' = "Null"
                   ELSE UNCHANGED <<main_pc, pipeline_state>>
                /\ UNCHANGED error_seen
           ELSE IF msg = "Error"
           THEN /\ main_pc' = "done"
                /\ pipeline_state' = "Null"
                /\ error_seen' = TRUE
                /\ UNCHANGED <<eof_count, counted>>
           ELSE UNCHANGED <<eof_count, counted, main_pc, pipeline_state, error_seen>>
    /\ UNCHANGED <<auxVars, iterVars, inputVars, updaters, audio_left, audio_eos,
                   async_posted, eos_posted, error_posted, others_posted>>


\* ---------------------------------------------------------- video branch
PushBufferTwice(queue, buffer) == queue \o <<buffer, buffer>>

\* appsrc.push_buffer(buffer)
PushBuffer(queue, buffer) == Append(queue, buffer)

\* mod.rs:97-115  the need_data callback: one pull of the Frame Source, then
\* push_buffer or end_of_stream.  The callback keeps no record of having
\* signalled end-of-stream; appsrc decides when it runs.
NeedData ==
    /\ pipeline_state = "Playing"
    /\ Len(results) < total_frames + MaxExtraCalls
    /\ LET r == IteratorNext(current_frame_idx, total_frames, updaters, ui)
       IN  /\ current_frame_idx' = r.idx
           /\ ui' = r.ui
           /\ trace' = trace \o r.log
           /\ results' = Append(results, r.ret)
           /\ IF r.ret # None
              THEN /\ pushed' = PushBuffer(pushed,
                                    [idx |-> r.ret[1].idx,
                                     pts |-> BufferPts(r.ret[1].idx),
                                     duration |-> BufferDuration,
                                     frame |-> r.ret[1].frame])
                   /\ UNCHANGED eos_calls
              ELSE /\ eos_calls' = eos_calls + 1
                   /\ UNCHANGED pushed
    /\ UNCHANGED <<auxVars, busVars, inputVars, updaters, main_pc, pipeline_state,
                   eof_count, audio_left, audio_eos, counted, error_seen>>

\* ---------------------------------------------------------- audio branch
\* mod.rs:119-151  filesrc ! decodebin ! audioconvert ! queue: the file is
\* finite; the branch decodes a block, or ends once none is left.
AudioDecode ==
    /\ pipeline_state = "Playing"
    /\ ~audio_eos
    /\ IF audio_left > 0
       THEN audio_left' = audio_left - 1 /\ UNCHANGED audio_eos
       ELSE audio_eos' = TRUE /\ UNCHANGED audio_left
    /\ UNCHANGED <<auxVars, iterVars, busVars, inputVars, updaters, main_pc,
                   pipeline_state, eof_count, counted, error_seen>>

\* -------------------------------------------------------------- the bus
\* mod.rs:176  the state change to Playing completes asynchronously; the
\* pipeline reports it once with AsyncDone.  This is GStreamer's behaviour,
\* not code of the repository: no end of a branch produces this message.
PostAsyncDone ==
    /\ pipeline_state = "Playing"
    /\ ~async_posted
    /\ bus' = Append(bus, "AsyncDone")
    /\ async_posted' = TRUE
    /\ UNCHANGED <<auxVars, iterVars, inputVars, updaters, main_pc, pipeline_state,
                   eof_count, audio_left, audio_eos, counted, error_seen,
                   eos_posted, error_posted, others_posted>>

\* mod.rs:161-173  mp4mux ! filesink: the muxer forwards end-of-stream to the
\* only sink once both of its inputs have ended, and the pipeline then
\* reports a single Eos.
PostEos ==
    /\ pipeline_state = "Playing"
    /\ eos_calls > 0
    /\ audio_eos
    /\ ~eos_posted
    /\ bus' = Append(bus, "Eos")
    /\ eos_posted' = TRUE
    /\ UNCHANGED <<auxVars, iterVars, inputVars, updaters, main_pc, pipeline_state,
                   eof_count, audio_left, audio_eos, counted, error_seen,
                   async_posted, error_posted, others_posted>>

\* mod.rs:191  an element of the graph reports an error.
PostError ==
    /\ pipeline_state = "Playing"
    /\ ~error_posted
    /\ bus' = Append(bus, "Error")
    /\ error_posted' = TRUE
    /\ UNCHANGED <<auxVars, iterVars, inputVars, updaters, main_pc, pipeline_state,
                   eof_count, audio_left, audio_eos, counted, error_seen,
                   async_posted, eos_posted, others_posted>>

\* mod.rs:200  any other message (state changes, stream start, ...).
PostOther ==
    /\ pipeline_state = "Playing"
    /\ others_posted < MaxOther
    /\ bus' = Append(bus, "Other")
    /\ others_posted' = others_posted + 1
    /\ UNCHANGED <<auxVars, iterVars, inputVars, updaters, main_pc, pipeline_state,
                   eof_count, audio_left, audio_eos, counted, error_seen,
                   async_posted, eos_posted, error_posted>>

\* ------------------------------------------------- mod.rs: VideoFrameIter
\* VideoFrameIter::new: (duration.as_secs_f64() * frame_rate as f64).round()
\* as u32, the duration given in milliseconds.
VideoFrameIterNewTruncating(ms, r) == SaturateU32((ms * r) \div 1000)

VideoFrameIterNew(ms, r) == SaturateU32(RoundDiv(ms * r, 1000))

\* VideoFrameIter::duration: Duration::from_secs(total_frames / frame_rate),
\* in milliseconds.
VideoFrameIterDuration(total, r) == (total \div r) * 1000

\* ------------------------------------- image_manager.rs: ImageManager::new
Min(a, b) == IF a <= b THEN a ELSE b

\* `as u8` of a non-negative float: truncation, saturating at u8::MAX.
SaturateU8(x) == IF x > U8Max THEN U8Max ELSE x

\* a * b in u32.  A product above u32::MAX panics in a build with overflow
\* checks and wraps in one without; the only such product here is
\* u32::MAX * b, which wraps to 2^32 - b = u32::MAX - (b - 1).
MulU32(a, b, checked) ==
    IF b = 0 \/ a <= U32Max \div b THEN [ok |-> TRUE, val |-> a * b]
    ELSE IF checked THEN [ok |-> FALSE, val |-> 0]
    ELSE [ok |-> TRUE, val |-> U32Max - (b - 1)]

\* let mut n = ((duration - 5s).as_secs_f64() / 5.0) as u8
ImageCount(rest_ms) == SaturateU8(rest_ms \div (SwapSeconds * 1000))

\* ((duration - 5s).as_secs_f64() / n as f64) as u32: for n = 0 the quotient
\* is NaN (0/0, cast to 0) or inf (cast to u32::MAX).
StepSeconds(rest_ms, n) ==
    IF n = 0 THEN (IF rest_ms = 0 THEN 0 ELSE U32Max)
    ELSE SaturateU32(rest_ms \div (1000 * n))

\* while n != 0 { create(n.min(10)); n -= n.min(10) }: the sizes requested.
BatchesOneByOne(n) == [i \in 1..n |-> 1]

RECURSIVE Batches(_)
Batches(n) ==
    IF n = 0 THEN <<>>
    ELSE <<Min(n, BatchMax)>> \o Batches(n - Min(n, BatchMax))

RECURSIVE SumSeq(_)
SumSeq(q) == IF q = <<>> THEN 0 ELSE Head(q) + SumSeq(Tail(q))

\* .enumerate().map(|(i, img)| (5 * frame_rate + frame_step * i, ...))
ImageFrameOneBased(r, step, i) == LeadSeconds * r + step * (i + 1)

ImageFrame(r, step, i) == LeadSeconds * r + step * i

NoImages == [status |-> "none", n |-> 0, step |-> 0, calls |-> <<>>, frames |-> <<>>]

\* ImageManager::new(prompt, openai, frame_rate, duration, ui) when every
\* request succeeds and returns as many images as were asked for.
\* `duration - Duration::from_secs(5)` panics below 5 seconds.
ImageManagerNew(r, d_ms, checked) ==
    IF d_ms < LeadSeconds * 1000
    THEN [NoImages EXCEPT !.status = "panic"]
    ELSE LET rest == d_ms - LeadSeconds * 1000
             n == ImageCount(rest)
             step == MulU32(StepSeconds(rest, n), r, checked)
             calls == Batches(n)
         IN  IF ~step.ok
             THEN [NoImages EXCEPT !.status = "panic", !.n = n]
             ELSE [status |-> "ok", n |-> n, step |-> step.val, calls |-> calls,
                   frames |-> [i \in 1..SumSeq(calls) |->
                                  ImageFrame(r, step.val, i - 1)]]

\* ---------------------------------------------------- states at rest
SubIdle ==
    /\ text = <<>>
    /\ total_frames = 0
    /\ parts = <<>>
    /\ images = <<>>
    /\ sub_pc = "built"

TimingIdle ==
    /\ duration_ms = 0
    /\ rate = FrameRate
    /\ debug_build = FALSE
    /\ timing_pc = "images"
    /\ img_out = NoImages

StoreIdle ==
    /\ handle_idx = 0
    /\ store_images = <<>>
    /\ resize_cache = <<>>
    /\ held = <<>>
    /\ issued = <<>>
    /\ resample_calls = <<>>
    /\ returned = <<>>

TextIdle ==
    /\ box = <<>>
    /\ measured = <<>>
    /\ text_lines = <<>>
    /\ text_pc = "idle"

RetryIdle ==
    /\ attempt = 0
    /\ retry_pc = "idle"

RenderIdle ==
    /\ tree = <<>>
    /\ applied = <<>>
    /\ render_pc = "rendered"

\* ----------------------------------------------------------------- inputs
Dialogues ==
    { <<"h", "i", ",", " ", "y", "o", "u", ".">>,
      Rep("a", 98) \o <<" ">> \o <<"b">> }

\* Vec<(u32, ImageHandle)>; handle 0 is the logo main.rs adds first.
ImageSchedules ==
    { <<>>, << <<0, 1>>, <<2, 2>> >> }

\* main.rs:74-164  children[3].text = String::default(), children[1] = logo
InitialUi == [subtitle |-> <<>>, image |-> 0]

PipelineQuiet ==
    /\ current_frame_idx = 0
    /\ updaters = <<>>
    /\ main_pc = "register_sub"
    /\ pipeline_state = "Null"
    /\ eof_count = 0
    /\ bus = <<>>
    /\ pushed = <<>>
    /\ eos_calls = 0
    /\ audio_eos = FALSE
    /\ async_posted = FALSE
    /\ eos_posted = FALSE
    /\ error_posted = FALSE
    /\ others_posted = 0
    /\ results = <<>>
    /\ trace = <<>>
    /\ counted = <<>>
    /\ error_seen = FALSE

PipelineIdle ==
    /\ ui = InitialUi
    /\ PipelineQuiet

\* main.rs:60-198  the state when main is about to register the updaters.
Init ==
    /\ text \in Dialogues
    /\ total_frames \in 0..MaxFrames
    /\ parts = SubtitleManagerNew(text, total_frames)
    /\ images \in ImageSchedules
    /\ audio_left \in 0..MaxAudio
    /\ sub_pc = "built"
    /\ PipelineIdle
    /\ TextIdle
    /\ RetryIdle
    /\ TimingIdle
    /\ StoreIdle
    /\ RenderIdle

Next ==
    \/ RegisterSubtitle
    \/ RegisterImage
    \/ SetStatePlaying
    \/ WaitLoop
    \/ NeedData
    \/ AudioDecode
    \/ PostAsyncDone
    \/ PostEos
    \/ PostError
    \/ PostOther

Spec == Init /\ [][Next]_vars

\* The scheduling of the streaming runtime: every thread that can run does.
Fairness ==
    /\ WF_vars(RegisterSubtitle)
    /\ WF_vars(RegisterImage)
    /\ WF_vars(SetStatePlaying)
    /\ WF_vars(WaitLoop)
    /\ WF_vars(NeedData)
    /\ WF_vars(AudioDecode)
    /\ WF_vars(PostAsyncDone)
    /\ WF_vars(PostEos)

LiveSpec == Init /\ [][Next]_vars /\ Fairness

\* The states of the pipeline named in the design: Idle until set_state
\* (Playing), Playing until the first counted signal, Draining until the wait
\* loop ends, Stopped afterwards.
PipeState ==
    IF main_pc \in {"register_sub", "register_img", "set_playing"} THEN "Idle"
    ELSE IF main_pc = "wait" /\ eof_count = 0 THEN "Playing"
    ELSE IF main_pc = "wait" THEN "Draining"
    ELSE "Stopped"

\* ------------------------------------------- SubtitleManager::new on its own
WordLens == {0, 1, 49, 98, 99}
SubWords == {Rep("a", k) : k \in WordLens} \cup { <<".">>, <<REDACT>> }
HelloWorld == <<"H", "e", "l", "l", "o", ",", " ", "w", "o", "r", "l", "d", ".">>
SubTexts ==
    {JoinWords(ws) : ws \in UNION {[1..n -> SubWords] : n \in 1..MaxWords}}
        \cup {HelloWorld}
SubFrameCounts == {0, 1, 2, 600}

SubInit ==
    /\ text \in SubTexts
    /\ total_frames \in SubFrameCounts
    /\ parts = <<>>
    /\ images = <<>>
    /\ audio_left = 0
    /\ sub_pc = "input"
    /\ PipelineIdle
    /\ TextIdle
    /\ RetryIdle
    /\ TimingIdle
    /\ StoreIdle
    /\ RenderIdle

\* subtitle.rs:8-54
SubtitleNew ==
    /\ sub_pc = "input"
    /\ parts' = SubtitleManagerNew(text, total_frames)
    /\ sub_pc' = "built"
    /\ UNCHANGED <<auxVars, text, total_frames, images, iterVars, busVars, updaters,
                   main_pc, pipeline_state, eof_count, audio_left, audio_eos,
                   counted, error_seen>>

SubNext == SubtitleNew

SubSpec == SubInit /\ [][SubNext]_vars


\* =================================================================== claims
Returned(k) == results[k] # None
Successes == {k \in 1..Len(results) : Returned(k)}
Last(q) == q[Len(q)]
\* the step is a call of next(), and it returned a frame / returned None
CalledNext == Len(results') = Len(results) + 1
GotFrame == CalledNext /\ Last(results') # None
GotNone == CalledNext /\ Last(results') = None

\* C1: of the calls of next() on a Frame Source of total_frames = N, exactly
\* the first N return a frame; every later call returns None.
C1_ExhaustedAfterN ==
    \A k \in 1..Len(results) : Returned(k) <=> k <= total_frames

C1_Witness ==
    /\ total_frames >= 2
    /\ Len(results) >= total_frames + 2

\* C2: a call that returns a frame returns the index held before the call,
\* which is the number of frames returned so far, and raises the index by
\* one; no step ever lowers the index.
C2_Sequential ==
    [][ /\ current_frame_idx' >= current_frame_idx
        /\ GotFrame =>
             /\ Last(results')[1].idx = current_frame_idx
             /\ Last(results')[1].idx = Cardinality(Successes)
             /\ current_frame_idx' = current_frame_idx + 1
        /\ ~GotFrame => current_frame_idx' = current_frame_idx ]_vars

C2_Witness ==
    \E k \in 1..Len(results) : Returned(k) /\ results[k][1].idx = 2

\* The invocations one successful call makes for frame f: every registered
\* updater in registration order, then the render.
ExpectedEvent(p) ==
    LET n == Len(updaters) + 1
        f == (p - 1) \div n
        j == ((p - 1) % n) + 1
    IN  IF j <= Len(updaters)
        THEN [kind |-> "update", who |-> updaters[j], frame |-> f]
        ELSE [kind |-> "render", who |-> "ui", frame |-> f]

\* C3: each call that returns a frame invokes every registered updater once,
\* in registration order, with the current index, and renders after them; a
\* call that returns None invokes nothing and leaves tree and index alone.
C3_UpdatersThenRender ==
    /\ [](/\ Len(trace) = Cardinality(Successes) * (Len(updaters) + 1)
          /\ \A p \in 1..Len(trace) : trace[p] = ExpectedEvent(p))
    /\ [][GotNone => UNCHANGED <<trace, ui, current_frame_idx>>]_vars

C3_Witness ==
    /\ Len(updaters) = 2
    /\ Len(trace) >= 6
    /\ Len(results) > total_frames
    /\ ui # InitialUi

\* C4: without an error the pipeline only moves Idle -> Playing -> Draining
\* -> Stopped, one counted signal per step after Playing, it is Stopped only
\* with a count of two, and Stopped is never left.
C4_TwoSignals ==
    [][ /\ PipeState = "Stopped" => PipeState' = "Stopped"
        /\ (~error_seen' /\ PipeState' # PipeState) =>
             \/ PipeState = "Idle" /\ PipeState' = "Playing" /\ eof_count' = 0
             \/ PipeState = "Playing" /\ PipeState' = "Draining" /\ eof_count' = 1
             \/ PipeState = "Draining" /\ PipeState' = "Stopped" /\ eof_count' = 2
        /\ (~error_seen' /\ eof_count' # eof_count) =>
             eof_count' = eof_count + 1 /\ PipeState' # PipeState ]_vars

C4_Witness ==
    PipeState = "Stopped" /\ ~error_seen /\ eof_count = 2 /\ others_posted > 0

ReadsError == main_pc = "wait" /\ bus # <<>> /\ Head(bus) = "Error" /\ bus' = Tail(bus)

\* C6: reading an Error while Playing or Draining stops the pipeline in that
\* very step, whatever the count, and leaves the count alone; once Stopped no
\* message is read off the bus any more.
C6_ErrorStops ==
    [][ /\ ReadsError =>
             /\ PipeState \in {"Playing", "Draining"}
             /\ PipeState' = "Stopped"
             /\ pipeline_state' = "Null"
             /\ eof_count' = eof_count
        /\ PipeState = "Stopped" =>
             /\ Len(bus') >= Len(bus)
             /\ UNCHANGED <<eof_count, counted, main_pc, pipeline_state>> ]_vars

C6_Witness ==
    error_seen /\ PipeState = "Stopped" /\ eof_count = 1 /\ bus # <<>>

\* C7: under fair scheduling, a run in which no error is reported reaches
\* Stopped.
C7_Terminates ==
    ([]~error_posted) => <>(PipeState = "Stopped")

C7_Witness ==
    /\ PipeState = "Stopped"
    /\ ~error_posted
    /\ total_frames >= 2
    /\ audio_left = 0
    /\ Len(pushed) = total_frames

\* C8 as stated: whatever demand callbacks run, end-of-stream is signalled on
\* the video branch at most once and next() returns None at most once.
C8_SingleEos ==
    /\ eos_calls <= 1
    /\ Cardinality({k \in 1..Len(results) : ~Returned(k)}) <= 1

RenderEvents == {p \in 1..Len(trace) : trace[p].kind = "render"}

\* C9: nothing is rendered before the pipeline plays; at every point the
\* renders are as many as the callbacks that returned a frame, the buffers
\* handed to the encoder are exactly the rendered frames, once each, and the
\* i-th buffer carries index i - 1.
C9_PullDriven ==
    /\ PipeState = "Idle" => trace = <<>> /\ pushed = <<>>
    /\ Cardinality(RenderEvents) = Cardinality(Successes)
    /\ Len(pushed) = Cardinality(Successes)
    /\ \A i \in 1..Len(pushed) :
         /\ pushed[i].idx = i - 1
         /\ Returned(i)
         /\ pushed[i].frame = results[i][1].frame
    /\ \A p \in RenderEvents :
         Cardinality({i \in 1..Len(pushed) : pushed[i].idx = trace[p].frame}) = 1

C9_Witness ==
    /\ Len(pushed) >= 3
    /\ \E i \in 1..Len(pushed) : pushed[i].frame # InitialUi

\* C10 as stated: for a non-empty text the frames of the schedule start at 0,
\* strictly increase and do not exceed total_frames.
C10_StrictlyIncreasing ==
    (sub_pc = "built" /\ text # <<>>) =>
        /\ parts[1][1] = 0
        /\ \A i \in 1..Len(parts) : parts[i][1] <= total_frames
        /\ \A i, j \in 1..Len(parts) : i < j => parts[i][1] < parts[j][1]


\* C11 as stated: a text of utterance weight 0 (empty, or redaction glyphs
\* only) gets no schedule entry.
C11_NoSubtitlesForWeightZero ==
    (sub_pc = "built" /\ Utterances(text) = 0) => parts = <<>>


\* ================================== frame count and image schedule on their own
Durations ==
    {0, 8, 25, 4000, 5000, 7000, 10000, 10500, 12000, 35000, 55000, 60000,
     105000, 1284000, 1285000, 1290000}
Rates == {1, 30, 60}

TimingInit ==
    /\ duration_ms \in Durations
    /\ rate \in Rates
    /\ debug_build \in BOOLEAN
    /\ timing_pc = "input"
    /\ img_out = NoImages
    /\ SubIdle
    /\ audio_left = 0
    /\ PipelineIdle
    /\ TextIdle
    /\ RetryIdle
    /\ StoreIdle
    /\ RenderIdle

\* main.rs:60-64  VideoFrameIter::new(size, frame_rate, mp3.duration())
NewFrameSource ==
    /\ timing_pc = "input"
    /\ total_frames' = VideoFrameIterNew(duration_ms, rate)
    /\ timing_pc' = "source"
    /\ UNCHANGED <<textVars, retryVars, text, parts, images, sub_pc, duration_ms, rate, debug_build,
                   img_out, storeVars, renderVars, iterVars, busVars, updaters,
                   main_pc, pipeline_state, eof_count, audio_left, audio_eos,
                   counted, error_seen>>

\* main.rs:179-185  ImageManager::new(.., video.frame_rate(), video.duration(),
\* ..); handle 0 is the logo, the generated images get the next handles.
ImageNew ==
    /\ timing_pc = "source"
    /\ img_out' = ImageManagerNew(rate, VideoFrameIterDuration(total_frames, rate),
                                  debug_build)
    /\ images' = [i \in 1..Len(img_out'.frames) |-> <<img_out'.frames[i], i>>]
    /\ timing_pc' = "images"
    /\ UNCHANGED <<textVars, retryVars, text, total_frames, parts, sub_pc, duration_ms, rate,
                   debug_build, storeVars, renderVars, iterVars, busVars,
                   updaters, main_pc, pipeline_state, eof_count, audio_left,
                   audio_eos, counted, error_seen>>

TimingNext == NewFrameSource \/ ImageNew

TimingSpec == TimingInit /\ [][TimingNext]_vars

\* the duration ImageManager::new is given, in whole seconds
ReportedSeconds == total_frames \div rate

\* C12 as stated: with n = floor((D - 5)/5) >= 1 the schedule has exactly n
\* entries, entry i at frame 5R + floor((D - 5)/n) * R * i, none before 5R;
\* D = 35, R = 30 gives 150, 300, ..., 900.
C12_ImageSchedule ==
    LET d == ReportedSeconds
        n == (d - 5) \div 5
    IN  (timing_pc = "images" /\ d >= 10) =>
            /\ img_out.status = "ok"
            /\ Len(img_out.frames) = n
            /\ \A i \in 1..Len(img_out.frames) :
                 /\ img_out.frames[i] = 5 * rate + ((d - 5) \div n) * rate * (i - 1)
                 /\ img_out.frames[i] >= 5 * rate
            /\ (d = 35 /\ rate = 30) =>
                 img_out.frames = <<150, 300, 450, 600, 750, 900>>

\* C13 as stated: for every duration and every frame rate >= 1 the schedule
\* computation of ImageManager::new finishes without a panic.
C13_TimingNeverFails ==
    (timing_pc = "images" /\ rate >= 1) => img_out.status # "panic"

Stores == 1..MaxStores
Pictures == {"p", "q"}
Sizes == {<<1, 1>>, <<2, 1>>}

\* IMAGE_HANDLE_IDX.fetch_add(1, Relaxed): one atomic read-modify-write.
FetchAddNoIncrement(idx) == [val |-> idx, next |-> idx]

FetchAdd(idx) == [val |-> idx, next |-> idx + 1]

\* image::imageops::resize(&self.images[handle], size.x, size.y, Lanczos3):
\* a function of the original and the size.
Resize(img, size) == <<img, size>>

MapInsert(map, key, val) == [k \in DOMAIN map \cup {key} |->
                                IF k = key THEN val ELSE map[k]]

\* map.entry(size).or_insert_with(..) finds an entry: the closure is not run.
CacheHitNever(cache, h, size) == FALSE

CacheHit(cache, h, size) == h \in DOMAIN cache /\ size \in DOMAIN cache[h]

StorePanicked == returned # <<>> /\ ~returned[Len(returned)].ok

StoreInit ==
    /\ handle_idx = 0
    /\ store_images = [s \in Stores |-> <<>>]
    /\ resize_cache = [s \in Stores |-> <<>>]
    /\ held = [s \in Stores |-> None]
    /\ issued = <<>>
    /\ resample_calls = <<>>
    /\ returned = <<>>
    /\ SubIdle
    /\ TimingIdle
    /\ RenderIdle
    /\ audio_left = 0
    /\ PipelineIdle
    /\ TextIdle
    /\ RetryIdle

\* ImageStore::add, first half: let handle = ImageHandle::new();
HandleNew(s) ==
    /\ ~StorePanicked
    /\ held[s] = None
    /\ Len(issued) < MaxHandles
    /\ \E img \in Pictures :
         held' = [held EXCEPT ![s] = Some([handle |-> FetchAdd(handle_idx).val,
                                          img |-> img])]
    /\ issued' = Append(issued, FetchAdd(handle_idx).val)
    /\ handle_idx' = FetchAdd(handle_idx).next
    /\ UNCHANGED <<textVars, retryVars, store_images, resize_cache, resample_calls, returned,
                   inputVars, timingVars, renderVars, iterVars, busVars,
                   updaters, main_pc, pipeline_state, eof_count, audio_left,
                   audio_eos, counted, error_seen>>

\* ImageStore::add, second half: self.images.insert(handle, img); handle
StoreInsert(s) ==
    /\ ~StorePanicked
    /\ held[s] # None
    /\ store_images' = [store_images EXCEPT ![s] =
                           MapInsert(@, held[s][1].handle, held[s][1].img)]
    /\ held' = [held EXCEPT ![s] = None]
    /\ UNCHANGED <<textVars, retryVars, handle_idx, resize_cache, issued, resample_calls, returned,
                   inputVars, timingVars, renderVars, iterVars, busVars,
                   updaters, main_pc, pipeline_state, eof_count, audio_left,
                   audio_eos, counted, error_seen>>

\* ImageStore::get_resized(&mut self, handle, size) on a store with the
\* originals imgs and the cache `cache`.  Indexing self.images with a handle
\* the store does not hold panics, after the outer entry was created.
GetResizedResult(imgs, cache, h, size) ==
    LET outer == IF h \in DOMAIN cache THEN cache ELSE MapInsert(cache, h, <<>>)
    IN  IF CacheHit(outer, h, size)
        THEN [cache |-> outer, ok |-> TRUE, ran |-> FALSE, pixels |-> outer[h][size]]
        ELSE IF h \notin DOMAIN imgs
        THEN [cache |-> outer, ok |-> FALSE, ran |-> FALSE, pixels |-> <<>>]
        ELSE [cache |-> MapInsert(outer, h,
                            MapInsert(outer[h], size, Resize(imgs[h], size))),
              ok |-> TRUE, ran |-> TRUE, pixels |-> Resize(imgs[h], size)]

GetResized(s, h, size) ==
    LET res == GetResizedResult(store_images[s], resize_cache[s], h, size)
        call == [store |-> s, handle |-> h, size |-> size]
    IN  /\ ~StorePanicked
        /\ held[s] = None
        /\ Len(returned) < MaxCalls
        /\ resize_cache' = [resize_cache EXCEPT ![s] = res.cache]
        /\ returned' = Append(returned, [call |-> call, ok |-> res.ok,
                                         pixels |-> res.pixels])
        /\ resample_calls' = IF res.ran THEN Append(resample_calls, call)
                             ELSE resample_calls
        /\ UNCHANGED <<textVars, retryVars, handle_idx, store_images, held, issued,
                       inputVars, timingVars, renderVars, iterVars, busVars,
                       updaters, main_pc, pipeline_state, eof_count, audio_left,
                       audio_eos, counted, error_seen>>

StoreNext ==
    \/ \E s \in Stores : HandleNew(s)
    \/ \E s \in Stores : StoreInsert(s)
    \/ \E s \in Stores, h \in 0..(MaxHandles - 1), size \in Sizes :
         h < handle_idx /\ GetResized(s, h, size)

StoreSpec == StoreInit /\ [][StoreNext]_vars


\* handles a thread has obtained and not yet inserted
HeldHandles == {held[s][1].handle : s \in {t \in DOMAIN held : held[t] # None}}

\* C14: every handle issued is larger than every handle issued before it,
\* so no value is issued twice, whatever the interleaving of the stores'
\* threads; a handle is in at most one store or one thread's hands.
C14_HandlesDistinctIncreasing ==
    /\ \A i, j \in 1..Len(issued) : i < j => issued[i] < issued[j]
    /\ \A s, t \in DOMAIN store_images :
         s # t => DOMAIN store_images[s] \cap DOMAIN store_images[t] = {}
    /\ \A s \in DOMAIN store_images :
         /\ DOMAIN store_images[s] \cap HeldHandles = {}
         /\ \A h \in DOMAIN store_images[s] : \E i \in 1..Len(issued) : issued[i] = h
    /\ \A s, t \in DOMAIN held :
         (s # t /\ held[s] # None /\ held[t] # None) =>
             held[s][1].handle # held[t][1].handle

\* both threads between fetch_add and insert, store 2's thread having
\* obtained its handle first
C14_Witness ==
    /\ held[1] # None
    /\ held[2] # None
    /\ held[2][1].handle < held[1][1].handle
    /\ issued = <<0, 1>>

C15_State ==
    /\ \A i, j \in 1..Len(resample_calls) :
         i # j => resample_calls[i] # resample_calls[j]
    /\ \A i, j \in 1..Len(returned) :
         (i < j /\ returned[i].ok /\ returned[i].call = returned[j].call) =>
             returned[j].ok /\ returned[j].pixels = returned[i].pixels

C15_Step ==
    /\ \A s \in DOMAIN resize_cache : \A h \in DOMAIN resize_cache[s] :
         /\ h \in DOMAIN resize_cache'[s]
         /\ \A z \in DOMAIN resize_cache[s][h] :
              /\ z \in DOMAIN resize_cache'[s][h]
              /\ resize_cache'[s][h][z] = resize_cache[s][h][z]
    /\ \A s \in DOMAIN store_images : \A h \in DOMAIN store_images[s] :
         /\ h \in DOMAIN store_images'[s]
         /\ store_images'[s][h] = store_images[s][h]

\* C15: on one store the resampler runs at most once per (handle, size),
\* later requests for a pair return the pixels of the first, and no step
\* removes or replaces a cache entry or a stored original.
C15_ResizedOnce == []C15_State /\ [][C15_Step]_vars

\* the same pair asked for twice: one resampler run, the same pixels twice
C15_Witness ==
    /\ Len(returned) = 2
    /\ returned[1].call = returned[2].call
    /\ returned[1].ok
    /\ returned[2].pixels = returned[1].pixels
    /\ Len(resample_calls) = 1


\* ============================================================ VideoUI::render
\* A tree is a sequence of nodes; node i has a kind, a parent (0 is the root
\* render creates, otherwise an earlier Container) and the paint-order index
\* the layout engine computed for it (Layout::order).  Image nodes also name
\* a handle and have the size the layout gave them.
NodeOf(kind, parent, order, handle) ==
    [kind |-> kind, parent |-> parent, order |-> order, handle |-> handle]

\* the paint-order indices the layout can assign: fewer than there are nodes
Orders == 0..(MaxNodes - 1)

\* the nodes main can add to the tree t: below the root or below a
\* Container; handle 0 is in the store, handle 1 is not
NodeChoices(t) ==
    { NodeOf(k, par, o, 0) :
        k \in {"text", "image", "container"},
        par \in {0} \cup {i \in 1..Len(t) : t[i].kind = "container"},
        o \in Orders }
    \cup { NodeOf("image", 0, o, 1) : o \in Orders }

\* taffy.children(key): the children of a node in the order they were added
ChildrenOf(t, key) ==
    SelectSeq([i \in 1..Len(t) |-> i], LAMBDA i : t[i].parent = key)

FillBackground == [kind |-> "background", node |-> 0, key |-> 0]

\* StyledNode::into_draw_command: None for a Container, otherwise the command
\* with the node's layout.order as its key; an Image asks the store for the
\* resized copy.
IntoDrawCommand(t, key) ==
    IF t[key].kind = "container" THEN None
    ELSE Some([kind |-> t[key].kind, node |-> key, key |-> t[key].order])

\* while let Some((location, key)) = queued.pop() { .. }: the commands in the
\* order the walk discovers them and the store's cache afterwards.
RECURSIVE WalkQueued(_, _, _, _, _)
WalkQueued(t, imgs, queued, cmds, cache) ==
    IF queued = <<>> THEN [ok |-> TRUE, cmds |-> cmds, cache |-> cache]
    ELSE LET key == queued[Len(queued)]
             rest == SubSeq(queued, 1, Len(queued) - 1) \o ChildrenOf(t, key)
         IN  IF key = 0 \/ t[key].kind # "image"
             THEN WalkQueued(t, imgs, rest,
                             IF key = 0 THEN cmds ELSE cmds \o IntoDrawCommand(t, key),
                             cache)
             ELSE LET res == GetResizedResult(imgs, cache, t[key].handle, <<1, 1>>)
                  IN  IF res.ok
                      THEN WalkQueued(t, imgs, rest,
                                      cmds \o IntoDrawCommand(t, key), res.cache)
                      ELSE [ok |-> FALSE, cmds |-> cmds, cache |-> res.cache]

\* commands.sort_by_key(|(_, key)| *key): a stable sort, equal keys keep
\* their order.
SortByKeyMissing(cmds) == cmds

RECURSIVE SortByKey(_)
SortByKey(cmds) ==
    IF cmds = <<>> THEN <<>>
    ELSE LET last == cmds[Len(cmds)]
             front == SortByKey(SubSeq(cmds, 1, Len(cmds) - 1))
             below == SelectSeq(front, LAMBDA c : c.key <= last.key)
             above == SelectSeq(front, LAMBDA c : c.key > last.key)
         IN  below \o <<last>> \o above

RenderInit ==
    /\ tree = <<>>
    /\ applied = <<>>
    /\ render_pc = "building"
    /\ handle_idx = 1
    /\ store_images = <<(0 :> "p")>>
    /\ resize_cache = << <<>> >>
    /\ held = <<None>>
    /\ issued = <<0>>
    /\ resample_calls = <<>>
    /\ returned = <<>>
    /\ SubIdle
    /\ TimingIdle
    /\ audio_left = 0
    /\ PipelineIdle
    /\ TextIdle
    /\ RetryIdle

\* main.rs:74-164: one more node in the tree handed to VideoUI::new
AddNode ==
    /\ render_pc = "building"
    /\ Len(tree) < MaxNodes
    /\ \E nd \in NodeChoices(tree) : tree' = Append(tree, nd)
    /\ UNCHANGED <<textVars, retryVars, applied, render_pc, storeVars,
                   inputVars, timingVars, iterVars, busVars,
                   updaters, main_pc, pipeline_state, eof_count, audio_left,
                   audio_eos, counted, error_seen>>

\* VideoUI::render(&mut self, frame): the walk, the sort, then every command
\* applied to the frame in the sorted order.
VideoUIRender ==
    LET walk == WalkQueued(tree, store_images[1], <<0>>, <<FillBackground>>,
                           resize_cache[1])
    IN  /\ render_pc = "building"
        /\ resize_cache' = [resize_cache EXCEPT ![1] = walk.cache]
        /\ IF walk.ok
           THEN /\ applied' = SortByKey(walk.cmds)
                /\ render_pc' = "rendered"
           ELSE /\ applied' = <<>>
                /\ render_pc' = "panic"
        /\ UNCHANGED <<textVars, retryVars, tree, handle_idx, store_images, held, issued,
                       resample_calls, returned,
                       inputVars, timingVars, iterVars, busVars,
                       updaters, main_pc, pipeline_state, eof_count, audio_left,
                       audio_eos, counted, error_seen>>

RenderNext == AddNode \/ VideoUIRender

RenderSpec == RenderInit /\ [][RenderNext]_vars

\* the commands the walk of the tree discovers, in walk order
Discovered == {i \in 1..Len(tree) : tree[i].kind # "container"}

\* C16: after a render the commands were applied in non-decreasing
\* paint-order index, the background fill first, before every node's
\* command (nodes of index 0 included), and every node that draws was
\* applied exactly once.
C16_PaintOrder ==
    render_pc = "rendered" =>
        /\ \A i, j \in 1..Len(applied) : i < j => applied[i].key <= applied[j].key
        /\ applied # <<>>
        /\ applied[1] = FillBackground
        /\ \A i \in 2..Len(applied) : applied[i].kind # "background"
        /\ \A n \in Discovered :
             Cardinality({i \in 1..Len(applied) : applied[i].node = n}) = 1
        /\ Len(applied) = 1 + Cardinality(Discovered)

\* the walk meets a node of index 2 before one of index 0 and one of index 1
C16_Witness ==
    /\ render_pc = "rendered"
    /\ Len(tree) = 3
    /\ tree[1].kind = "text" /\ tree[1].order = 2
    /\ tree[2].kind = "image" /\ tree[2].order = 1
    /\ tree[3].kind = "text" /\ tree[3].order = 0
    /\ applied[2].node = 3


\* ------------------------------------------------- chunks of a built schedule
\* The words of chunk i: the first chunk starts as "" and every word is
\* appended after a space, a later chunk starts with its first word.
ChunkWords(i) ==
    IF i = 1 THEN Tail(Split(parts[1][2])) ELSE Split(parts[i][2])

\* the weight a chunk accumulated: its words' weights plus one per word
ChunkWeight(i) ==
    SumSeq([k \in 1..Len(ChunkWords(i)) |-> Utterances(ChunkWords(i)[k]) + 1])

\* the weights of all chunks before chunk i
WeightBefore(i) == SumSeq([j \in 1..(i - 1) |-> ChunkWeight(j)])

\* the words of the text: their weights plus one per word
WordsWeight(t) ==
    SumSeq([k \in 1..Len(Split(t)) |-> Utterances(Split(t)[k]) + 1])

\* C18: a text whose words' weights plus one per word sum to less than 100
\* gets exactly one chunk, at frame 0, whatever total_frames is.
C18_OneChunkAtZero ==
    (sub_pc = "built" /\ WordsWeight(text) < Threshold) =>
        /\ Len(parts) = 1
        /\ parts[1][1] = 0
        /\ ChunkWords(1) = Split(text)

C18_Witness ==
    /\ sub_pc = "built"
    /\ text = HelloWorld
    /\ total_frames = 600
    /\ parts = << <<0, <<" ">> \o HelloWorld>> >>

\* C19 as stated: every chunk of the schedule has an accumulated weight
\* strictly below 100, whatever the text.
C19_EveryChunkBelowThreshold ==
    sub_pc = "built" => \A i \in 1..Len(parts) : ChunkWeight(i) < Threshold

\* C19 amended: a chunk reaches 100 only when it is a single word that alone
\* weighs 100 or more with its separator; a chunk is closed exactly when the
\* next word would take it to 100 or more; no word is lost.
C19_ChunksBelowThresholdButLongWords ==
    sub_pc = "built" =>
        /\ \A i \in 1..Len(parts) :
             \/ ChunkWeight(i) < Threshold
             \/ i > 1 /\ Len(ChunkWords(i)) = 1
        /\ \A i \in 1..(Len(parts) - 1) :
             ChunkWeight(i) + Utterances(Head(ChunkWords(i + 1))) + 1 >= Threshold
        /\ SumSeq([i \in 1..Len(parts) |-> Len(ChunkWords(i))]) = Len(Split(text))

\* two short words in the first chunk, then a word of weight 99 + 1 alone
C19_Witness ==
    /\ sub_pc = "built"
    /\ Len(parts) = 2
    /\ Len(ChunkWords(1)) = 2
    /\ ChunkWeight(1) < Threshold
    /\ ChunkWeight(2) >= Threshold

UpdaterTrees ==
    { MainChildren(InitialUi),
      << ContainerNode(<<>>), TextNode(<<"x">>), ContainerNode(<<>>), ImageNode(0) >>,
      << ContainerNode(<<TextNode(<<"t">>)>>), ImageNode(0) >> }

\* the store after main added the logo and ImageManager::new two images
StoreOfThree == << [h \in 0..2 |-> IF h = 0 THEN "p" ELSE "q"] >>

UpdaterInit ==
    /\ text \in Dialogues
    /\ total_frames \in 0..MaxFrames
    /\ parts = SubtitleManagerNew(text, total_frames)
    /\ images \in ImageSchedules
    /\ sub_pc = "built"
    /\ ui \in UpdaterTrees
    /\ PipelineQuiet
    /\ TextIdle
    /\ RetryIdle
    /\ audio_left = 0
    /\ TimingIdle
    /\ RenderIdle
    /\ handle_idx = 3
    /\ store_images = StoreOfThree
    /\ resize_cache = << <<>> >>
    /\ held = <<None>>
    /\ issued = <<0, 1, 2>>
    /\ resample_calls = <<>>
    /\ returned = <<>>

UpdaterPanicked == trace # <<>> /\ ~trace[1].ok

\* One call updater.update(frame_idx, &mut ui); trace keeps the last call.
UpdateCall(who, f) ==
    LET res == IF who = "subtitle" THEN SubtitleManagerUpdate(parts, f, ui)
               ELSE ImageManagerUpdate(images, f, ui)
    IN  /\ ~UpdaterPanicked
        /\ ui' = res.children
        /\ trace' = <<[kind |-> "update", who |-> who, frame |-> f, ok |-> res.ok]>>
        /\ UNCHANGED <<inputVars, auxVars, current_frame_idx, results, pushed,
                       eos_calls, busVars, updaters, main_pc, pipeline_state,
                       eof_count, audio_left, audio_eos, counted, error_seen>>

SubtitleUpdateCall == \E f \in 0..MaxFrames : UpdateCall("subtitle", f)

ImageUpdateCall == \E f \in 0..MaxFrames : UpdateCall("image", f)

UpdaterNext == SubtitleUpdateCall \/ ImageUpdateCall

UpdaterSpec == UpdaterInit /\ [][UpdaterNext]_vars

\* the entries of a schedule at frame f
EntriesAt(sched, f) == {i \in 1..Len(sched) : sched[i][1] = f}

\* what one returned call of the updater `who` at frame f did to the tree:
\* only child k may differ, only in `field`, only to the value of an entry of
\* the schedule at f, and it does differ so when such an entry exists and
\* the child is of the kind the updater writes
UpdateEffect(sched, f, k, kind, field) ==
    /\ Len(ui') = Len(ui)
    /\ \A j \in 1..Len(ui) : j # k => ui'[j] = ui[j]
    /\ EntriesAt(sched, f) = {} => ui' = ui
    /\ (k <= Len(ui) /\ ui[k].kind # kind) => ui' = ui
    /\ (EntriesAt(sched, f) # {} /\ k <= Len(ui) /\ ui[k].kind = kind) =>
          \E i \in EntriesAt(sched, f) :
              ui'[k] = [ui[k] EXCEPT ![field] = sched[i][2]]

\* C21: an update changes the tree only at a frame of one of the updater's
\* schedule entries, and then only the subtitle node's text (Subtitle
\* updater) or the image leaf's handle (Image updater), to that entry's
\* value; the other nodes, the store and the schedules never change.
C21_UpdateFrame ==
    [][ (trace' # <<>> /\ trace'[1].ok) =>
          /\ UNCHANGED <<parts, images, store_images, resize_cache>>
          /\ trace'[1].who = "subtitle" =>
                UpdateEffect(parts, trace'[1].frame, 4, "text", "text")
          /\ trace'[1].who = "image" =>
                UpdateEffect(images, trace'[1].frame, 2, "image", "handle") ]_vars

\* both updaters have written the tree of main
C21_Witness ==
    /\ Len(ui) = 4
    /\ ui[2] = ImageNode(2)
    /\ ui[4].kind = "text" /\ ui[4].text # <<>>
    /\ ui[1] = MainChildren(InitialUi)[1]
    /\ ui[3] = MainChildren(InitialUi)[3]
    /\ trace # <<>> /\ trace[1].who = "image" /\ trace[1].frame = 2


\* C22: when no call fails, ImageManager::new makes exactly ceil(n/10)
\* external calls, each for 1 to 10 images, for n images in all; none for
\* n = 0.
C22_Batches ==
    (timing_pc = "images" /\ img_out.status = "ok") =>
        /\ Len(img_out.calls) = (img_out.n + BatchMax - 1) \div BatchMax
        /\ \A i \in 1..Len(img_out.calls) :
             1 <= img_out.calls[i] /\ img_out.calls[i] <= BatchMax
        /\ SumSeq(img_out.calls) = img_out.n
        /\ img_out.n = 0 => img_out.calls = <<>>

\* eleven images: a call for ten, then a call for one
C22_Witness ==
    /\ timing_pc = "images"
    /\ img_out.status = "ok"
    /\ img_out.n = 11
    /\ img_out.calls = <<10, 1>>


\* ================================================ text measurement and drawing
\* The font is modelled by an advance width per character; the width
\* font.layout(..).last() gives for a string is the sum of the advances, 0.0
\* for the empty string (unwrap_or(0.0)).
F32Max == 1000000     \* stands for f32::MAX: wider than every text here

CharWidth(ch) == IF ch \in {"i", " "} THEN 1 ELSE IF ch = "m" THEN 3 ELSE 2

TextWidth(str) ==
    SumSeq([k \in 1..Len(str) |-> CharWidth(str[k])])

Max(a, b) == IF a >= b THEN a ELSE b

\* `current_width > width && !current_line.is_empty()`
MustWrap(line_width, width, current_line) ==
    line_width > width /\ current_line # <<>>

\* One iteration of `for word in words` in calculate_text_size_for_width.
\* st = [lines, current_line, max_width]
MeasureWord(st, word, width) ==
    LET temp_line == st.current_line \o word
        current_width == TextWidth(temp_line)
    IN  IF MustWrap(current_width, width, st.current_line)
        THEN [lines |-> Append(st.lines, st.current_line),
              current_line |-> word \o <<" ">>,
              max_width |-> st.max_width]
        ELSE [lines |-> st.lines,
              current_line |-> temp_line \o <<" ">>,
              max_width |-> Max(st.max_width, current_width)]

RECURSIVE MeasureWords(_, _, _)
MeasureWords(st, ws, width) ==
    IF ws = <<>> THEN st
    ELSE MeasureWords(MeasureWord(st, Head(ws), width), Tail(ws), width)

\* calculate_text_size_for_width(width): Size { width: max_width,
\* height: (line_height as usize * lines.len()) as f32 }
CalculateTextSizeForWidth(str, line_height, width) ==
    LET st == MeasureWords([lines |-> <<>>, current_line |-> <<>>, max_width |-> 0],
                           Split(str), width)
    IN  [width |-> st.max_width, height |-> line_height * Len(st.lines)]

\* `as u32` of twice_x / 2.0: truncation, negative values saturate at 0
HalfAsU32(twice_x) == IF twice_x < 0 THEN 0 ELSE twice_x \div 2

\* lines.push((UVec2 { x: x_offset as u32, y: .. as u32 }, current_line)) with
\* x_offset = (layout.size.width - current_width) / 2.0 + layout.location.x
PlacedLine(b, lines, current_line, current_width) ==
    [x |-> HalfAsU32(b.width - current_width + 2 * b.left),
     y |-> b.line_height * Len(lines) + b.top,
     text |-> current_line,
     width |-> current_width]

\* One iteration of `for word in words` in into_draw_command.
\* st = [lines, current_line, current_width]
DrawWord(st, word, b) ==
    LET temp_line == st.current_line \o word
        width == TextWidth(temp_line)
    IN  IF MustWrap(width, b.width, st.current_line)
        THEN [lines |-> Append(st.lines,
                          PlacedLine(b, st.lines, st.current_line, st.current_width)),
              current_line |-> word \o <<" ">>,
              current_width |-> TextWidth(word)]
        ELSE [lines |-> st.lines,
              current_line |-> temp_line \o <<" ">>,
              current_width |-> width]

RECURSIVE DrawWords(_, _, _)
DrawWords(st, ws, b) ==
    IF ws = <<>> THEN st
    ELSE DrawWords(DrawWord(st, Head(ws), b), Tail(ws), b)

\* The lines of DrawCommand::TextCentered for a node laid out in the box b;
\* the line in progress is pushed after the loop.
TextCommandLines(str, b) ==
    LET st == DrawWords([lines |-> <<>>, current_line |-> <<>>, current_width |-> 0],
                        Split(str), b)
    IN  Append(st.lines, PlacedLine(b, st.lines, st.current_line, st.current_width))

FontWords == { <<>>, <<"i">>, <<"m">>, <<"m", "m">> }
FontTexts == {JoinWords(ws) : ws \in UNION {[1..n -> FontWords] : n \in 1..MaxWords}}
Boxes ==
    [left : {0, 5}, top : {0, 7}, width : {0, 2, 5, F32Max}, line_height : {3}]

TextInit ==
    /\ text \in FontTexts
    /\ box \in Boxes
    /\ measured = <<>>
    /\ text_lines = <<>>
    /\ text_pc = "input"
    /\ total_frames = 0
    /\ parts = <<>>
    /\ images = <<>>
    /\ sub_pc = "built"
    /\ audio_left = 0
    /\ PipelineIdle
    /\ RetryIdle
    /\ TimingIdle
    /\ StoreIdle
    /\ RenderIdle

\* the measure function taffy calls for the text node (ui.rs:136-155)
MeasureText ==
    /\ text_pc = "input"
    /\ measured' = CalculateTextSizeForWidth(text, box.line_height, box.width)
    /\ text_pc' = "measured"
    /\ UNCHANGED <<box, text_lines, inputVars, retryVars, timingVars, storeVars,
                   renderVars, iterVars, busVars, updaters, main_pc,
                   pipeline_state, eof_count, audio_left, audio_eos, counted,
                   error_seen>>

\* into_draw_command of the text node with its resolved box (ui.rs:203-269)
DrawText ==
    /\ text_pc = "measured"
    /\ text_lines' = TextCommandLines(text, box)
    /\ text_pc' = "drawn"
    /\ UNCHANGED <<box, measured, inputVars, retryVars, timingVars, storeVars,
                   renderVars, iterVars, busVars, updaters, main_pc,
                   pipeline_state, eof_count, audio_left, audio_eos, counted,
                   error_seen>>

TextNext == MeasureText \/ DrawText

TextSpec == TextInit /\ [][TextNext]_vars


\* the largest of a non-empty set of numbers
Largest(S) == CHOOSE x \in S : \A y \in S : y <= x

\* C23 as stated: the measured height is line_height times the number of
\* lines the word-wrap produces for that width, the last line included.
C23_MeasuredHeight ==
    text_pc = "drawn" => measured.height = box.line_height * Len(text_lines)

\* C24 as stated: the measured width is the width of the widest line of the
\* word-wrap; for width 0 it is the width of the widest word.
C24_MeasuredWidth ==
    text_pc = "drawn" =>
        /\ measured.width = Largest({text_lines[k].width : k \in 1..Len(text_lines)})
        /\ box.width = 0 =>
              measured.width =
                Largest({TextWidth(Split(text)[k]) : k \in 1..Len(Split(text))})

\* C26 as stated: line k is at y = box_top + line_height * k and x is
\* box_left + (box_width - line_width) / 2 cut to a whole pixel, also for a
\* line wider than the box.
C26_LinesCentred ==
    text_pc = "drawn" =>
        \A k \in 1..Len(text_lines) :
            /\ text_lines[k].y = box.top + box.line_height * (k - 1)
            /\ 2 * text_lines[k].x - 2 < 2 * box.left + box.width - text_lines[k].width
            /\ 2 * box.left + box.width - text_lines[k].width < 2 * text_lines[k].x + 2


\* The index the layout engine (taffy 0.3, not part of the repository) puts
\* in Layout::order: the position of a node among the children of its
\* parent, counted from 0 in every container anew.
SiblingIndex(t, i) == Cardinality({j \in 1..(i - 1) : t[j].parent = t[i].parent})

TaffyOrder(t) == \A i \in 1..Len(t) : t[i].order = SiblingIndex(t, i)

\* the nodes that draw, in a pre-order traversal from `key`, children in
\* their listed order
RECURSIVE PreOrderFrom(_, _)
PreOrderFrom(t, ks) ==
    IF ks = <<>> THEN <<>>
    ELSE (IF t[Head(ks)].kind = "container"
          THEN PreOrderFrom(t, ChildrenOf(t, Head(ks)))
          ELSE <<Head(ks)>>)
         \o PreOrderFrom(t, Tail(ks))

PreOrderLeaves(t) == PreOrderFrom(t, ChildrenOf(t, 0))

\* C25 as stated: with the indices the layout assigns, the nodes' commands
\* are applied in the pre-order of the tree, and the index does not
\* decrease along that pre-order.
C25_PreOrderPaint ==
    (render_pc = "rendered" /\ TaffyOrder(tree)) =>
        /\ [k \in 1..(Len(applied) - 1) |-> applied[k + 1].node] = PreOrderLeaves(tree)
        /\ \A k \in 1..(Len(PreOrderLeaves(tree)) - 1) :
             tree[PreOrderLeaves(tree)[k]].order <= tree[PreOrderLeaves(tree)[k + 1]].order


\* ============================================ subtitles over a pulled video
ShowWords == {Rep("a", k) : k \in {1, 49, 99}}
ShowTexts == {JoinWords(ws) : ws \in UNION {[1..n -> ShowWords] : n \in 1..MaxWords}}
ShowFrameCounts == {0, MaxFrames, 100 * MaxFrames}

ShowInit ==
    /\ text \in ShowTexts
    /\ total_frames \in ShowFrameCounts
    /\ parts = SubtitleManagerNew(text, total_frames)
    /\ images = <<>>
    /\ sub_pc = "built"
    /\ audio_left = 0
    /\ PipelineIdle
    /\ TextIdle
    /\ RetryIdle
    /\ TimingIdle
    /\ StoreIdle
    /\ RenderIdle

\* One call of next() on the Frame Source, frames pulled one after another
\* from 0 until the first None.
PullFrame ==
    /\ updaters # <<>>
    /\ Len(results) <= total_frames
    /\ LET r == IteratorNext(current_frame_idx, total_frames, updaters, ui)
       IN  /\ current_frame_idx' = r.idx
           /\ ui' = r.ui
           /\ trace' = r.log
           /\ results' = Append(results, r.ret)
    /\ UNCHANGED <<auxVars, busVars, inputVars, updaters, main_pc, pipeline_state,
                   eof_count, audio_left, audio_eos, counted, error_seen, pushed,
                   eos_calls>>

ShowNext == RegisterSubtitle \/ PullFrame

ShowSpec == ShowInit /\ [][ShowNext]_vars

\* the last schedule entry that starts at or before frame f (0 for none)
LastStarted(f) ==
    LET started == {i \in 1..Len(parts) : parts[i][1] <= f}
    IN  IF started = {} THEN 0 ELSE CHOOSE i \in started : \A j \in started : j <= i

\* the subtitle texts of the frames handed out so far
Shown == {results[k][1].frame.subtitle : k \in {j \in 1..Len(results) : results[j] # None}}

\* C27 as stated: with frames pulled in ascending order from 0, after frame
\* f the subtitle is the chunk of the last entry that starts at or before f,
\* and every chunk that starts below total_frames has been displayed once
\* its frame is reached.
C27_EveryChunkShown ==
    (updaters # <<>> /\ current_frame_idx > 0) =>
        /\ ui.subtitle = parts[LastStarted(current_frame_idx - 1)][2]
        /\ \A i \in 1..Len(parts) :
             parts[i][1] < current_frame_idx => parts[i][2] \in Shown


\* ------------------------------------------------ the chunks joined again
\* a chunk without its leading space, when it has one
DropLeadingSpace(s) == IF s # <<>> /\ s[1] = " " THEN Tail(s) ELSE s

\* the chunks in schedule order, the first without its leading space,
\* joined with single spaces
Rejoined ==
    JoinWords([i \in 1..Len(parts) |->
                 IF i = 1 THEN DropLeadingSpace(parts[1][2]) ELSE parts[i][2]])

RECURSIVE Flatten(_)
Flatten(ss) == IF ss = <<>> THEN <<>> ELSE Head(ss) \o Flatten(Tail(ss))

\* the words of all chunks, in schedule order
AllChunkWords == Flatten([i \in 1..Len(parts) |-> ChunkWords(i)])

C29_SwapsInsideAndApart ==
    (timing_pc = "images" /\ img_out.n >= 1) =>
        /\ img_out.status = "ok"
        /\ Len(img_out.frames) = img_out.n
        /\ img_out.step >= SwapSeconds * rate
        /\ \A i \in 1..Len(img_out.frames) : img_out.frames[i] < total_frames
        /\ \A i \in 1..(Len(img_out.frames) - 1) :
             /\ img_out.frames[i] < img_out.frames[i + 1]
             /\ img_out.frames[i + 1] - img_out.frames[i] = img_out.step

\* 60 s at 1 frame per second: 11 swaps, 5 frames apart, the last at 55
C29_Witness ==
    /\ timing_pc = "images"
    /\ total_frames = 60
    /\ img_out.n = 11
    /\ img_out.step = 5
    /\ img_out.frames[11] = 55


\* ===================================== main's retry loop around the images
\* main.rs:173  if attempt > 10 { panic!("Failed to fetch images.") }
AttemptLimit == 10

\* the store before the loop: the logo under handle 0, the counter at 1
LogoStore == [h \in {0} |-> "p"]

\* ui.add(img) k times in a row: each takes the next handle and inserts
\* the image under it.  st = [store, idx, handles].
RECURSIVE AddImages(_, _)
AddImages(st, k) ==
    IF k = 0 THEN st
    ELSE AddImages([store |-> MapInsert(st.store, FetchAdd(st.idx).val, "q"),
                    idx |-> FetchAdd(st.idx).next,
                    handles |-> Append(st.handles, FetchAdd(st.idx).val)],
                   k - 1)

\* The number of images handed to ui.add when request number `fail` fails
\* (0: none fails).  The responses are only collected in the loop; `.await?`
\* returns before the images of earlier responses are decoded and added.
CollectedEager(calls, fail) ==
    IF fail = 0 THEN SumSeq(calls) ELSE SumSeq(SubSeq(calls, 1, fail - 1))

Collected(calls, fail) == IF fail = 0 THEN SumSeq(calls) ELSE 0

\* ImageManager::new on the store `store` with the handle counter at idx,
\* request number `fail` failing (0: every request succeeds).  out is the
\* schedule computation with the requests made, images the schedule of an
\* Ok result.
ImageManagerNewFallible(r, d_ms, checked, fail, store, idx) ==
    LET base == ImageManagerNew(r, d_ms, checked)
        st == AddImages([store |-> store, idx |-> idx, handles |-> <<>>],
                        Collected(base.calls, fail))
    IN  IF base.status = "panic"
        THEN [out |-> base, store |-> store, idx |-> idx, images |-> <<>>]
        ELSE IF fail # 0
        THEN [out |-> [base EXCEPT !.status = "err",
                                   !.calls = SubSeq(base.calls, 1, fail),
                                   !.frames = <<>>],
              store |-> st.store, idx |-> st.idx, images |-> <<>>]
        ELSE [out |-> base, store |-> st.store, idx |-> st.idx,
              images |-> [i \in 1..Len(st.handles) |->
                             <<base.frames[i], st.handles[i]>>]]

RetrySeconds == {3, 10, 15, 60, 110}
RetryRates == {1, 30}

RetryInit ==
    /\ rate \in RetryRates
    /\ \E secs \in RetrySeconds : total_frames = secs * rate
    /\ debug_build \in BOOLEAN
    /\ duration_ms = 0
    /\ timing_pc = "source"
    /\ img_out = NoImages
    /\ attempt = 0
    /\ retry_pc = "loop"
    /\ handle_idx = 1
    /\ store_images = <<LogoStore>>
    /\ resize_cache = << <<>> >>
    /\ held = <<>>
    /\ issued = <<>>
    /\ resample_calls = <<>>
    /\ returned = <<>>
    /\ text = <<>>
    /\ parts = <<>>
    /\ images = <<>>
    /\ sub_pc = "built"
    /\ audio_left = 0
    /\ PipelineIdle
    /\ TextIdle
    /\ RenderIdle

\* main.rs:173-175  the attempt limit is passed: panic
GiveUp ==
    /\ retry_pc = "loop"
    /\ attempt > AttemptLimit
    /\ retry_pc' = "panic"
    /\ UNCHANGED <<attempt, timingVars, storeVars, renderVars, textVars, inputVars,
                   iterVars, busVars, updaters, main_pc, pipeline_state, eof_count,
                   audio_left, audio_eos, counted, error_seen>>

\* main.rs:177-188  attempt += 1; ImageManager::new(..).await: Ok breaks out
\* of the loop with the manager, Err goes on to a new description.
CallImageManagerNew ==
    /\ retry_pc = "loop"
    /\ attempt <= AttemptLimit
    /\ attempt' = attempt + 1
    /\ \E fail \in 0..Len(ImageManagerNew(rate, VideoFrameIterDuration(total_frames, rate),
                                           debug_build).calls) :
         LET r == ImageManagerNewFallible(rate,
                                          VideoFrameIterDuration(total_frames, rate),
                                          debug_build, fail, store_images[1],
                                          handle_idx)
         IN  /\ img_out' = r.out
             /\ store_images' = <<r.store>>
             /\ handle_idx' = r.idx
             /\ images' = r.images
             /\ retry_pc' = CASE r.out.status = "panic" -> "panic"
                              [] r.out.status = "err" -> "failed"
                              [] OTHER -> "done"
    /\ UNCHANGED <<duration_ms, rate, debug_build, timing_pc, resize_cache, held,
                   issued, resample_calls, returned, renderVars, textVars, text,
                   total_frames, parts, sub_pc, iterVars, busVars, updaters,
                   main_pc, pipeline_state, eof_count, audio_left, audio_eos,
                   counted, error_seen>>

\* main.rs:189-193  scp.image_description(..).await?: a new description and
\* back to the head of the loop, or main returns the error.
NewDescription ==
    /\ retry_pc = "failed"
    /\ retry_pc' \in {"loop", "abort"}
    /\ UNCHANGED <<attempt, timingVars, storeVars, renderVars, textVars, inputVars,
                   iterVars, busVars, updaters, main_pc, pipeline_state, eof_count,
                   audio_left, audio_eos, counted, error_seen>>

RetryNext == GiveUp \/ CallImageManagerNew \/ NewDescription

RetrySpec == RetryInit /\ [][RetryNext]_vars

\* C30: a failed image request leaves the Image Store, the handle counter,
\* the schedule and the UI tree as they were before the call, so every
\* attempt starts from the same store; ImageManager::new is called at most
\* 11 times; the images scheduled in the end are those the successful
\* attempt added, one per scheduled frame.
C30_FailedAttemptsLeaveNoTrace ==
    /\ attempt <= AttemptLimit + 1
    /\ retry_pc \in {"loop", "failed", "abort", "panic"} =>
         /\ store_images = <<LogoStore>>
         /\ handle_idx = 1
         /\ images = <<>>
         /\ ui = InitialUi
    /\ retry_pc = "done" =>
         /\ Len(images) = img_out.n
         /\ DOMAIN store_images[1] = 0..img_out.n
         /\ \A i \in 1..Len(images) : images[i][2] = i
         /\ ui = InitialUi

\* the second request of the second attempt failed after the first succeeded
C30_Witness ==
    /\ retry_pc = "failed"
    /\ attempt = 2
    /\ img_out.status = "err"
    /\ img_out.n = 11
    /\ Len(img_out.calls) = 2
    /\ store_images = <<LogoStore>>

====
